---- MODULE Spec2Model ----
(***************************************************************************)
(* Model of the DocumentPreview service                                    *)
(* (src/document_preview/document_preview.py): one worker that serves      *)
(* start() and then a sequence of execute(request) invocations, the        *)
(* unoserver conversion backend it launches, and the marker file           *)
(* /tmp/libre_pid the two share.                                           *)
(*                                                                         *)
(* Strings whose characters matter are sequences of one-character strings  *)
(* (digit runs, the raw max_pages_rendered parameter).  A string whose     *)
(* letter case matters is a record [chars, caps]: chars is the text in     *)
(* lower case and caps says that the text is written with capital letters. *)
(***************************************************************************)
EXTENDS Integers, Sequences, FiniteSets

\* ------------------------------------------------------------------ bounds
MaxDocPages == 3
MaxPagesParam == 2
MaxOcrPages == 1
MaxSleeps == 2

\* --------------------------------------------------------- python helpers
DigitChar == <<"0", "1", "2", "3", "4", "5", "6", "7", "8", "9">>

IsDigit(c) == \E d \in 1..10 : DigitChar[d] = c

DigitVal(c) == (CHOOSE d \in 1..10 : DigitChar[d] = c) - 1

RECURSIVE DigitsToInt(_)
DigitsToInt(s) ==
    IF s = <<>> THEN 0
    ELSE 10 * DigitsToInt(SubSeq(s, 1, Len(s) - 1)) + DigitVal(s[Len(s)])

\* str(i) for i >= 0
RECURSIVE Str(_)
Str(n) ==
    IF n < 10 THEN <<DigitChar[n + 1]>>
    ELSE Str(n \div 10) \o <<DigitChar[(n % 10) + 1]>>

\* str.zfill(width)
RECURSIVE Zfill(_, _)
Zfill(s, width) == IF Len(s) >= width THEN s ELSE Zfill(<<"0">> \o s, width)

\* int(x): a value, or ValueError when x is not a decimal literal
PyInt(raw) ==
    IF raw # <<>> /\ \A i \in 1..Len(raw) : IsDigit(raw[i])
    THEN [ok |-> TRUE, val |-> DigitsToInt(raw)]
    ELSE [ok |-> FALSE, val |-> 0]

Lit(text) == [chars |-> text, caps |-> FALSE]

Caps(text) == [chars |-> text, caps |-> TRUE]

LowerIdentity(s) == s

\* str.lower()
Lower(s) == [s EXCEPT !.caps = FALSE]

\* "click" in text (case-sensitive substring test on the modelled texts)
ContainsClick(s) == s.caps = FALSE /\ s.chars \in {"click here", "please click"}

\* Optional[int]: {} is None, {v} is the value v
None == {}

Truthy(opt) == opt # {} /\ opt # {0}

Min(a, b) == IF a < b THEN a ELSE b

\* ------------------------------------------------------------ file names
\* A file name is stem ++ digits (++ extension): output-03.jpg is
\* [stem |-> "output-", digits |-> <<"0","3">>].
ConvertedPdf == [stem |-> "converted.pdf", digits |-> <<>>]

\* "output" in s
HasOutput(s) == s.stem \in {"output-", "output_"}

StemRank(stem) == CASE stem = "converted.pdf" -> 0
                    [] stem = "output-" -> 1
                    [] stem = "output_" -> 2

RECURSIVE SeqLexLeq(_, _)
SeqLexLeq(a, b) ==
    IF a = <<>> THEN TRUE
    ELSE IF b = <<>> THEN FALSE
    ELSE IF a[1] # b[1] THEN DigitVal(a[1]) < DigitVal(b[1])
    ELSE SeqLexLeq(Tail(a), Tail(b))

\* plain string order of two names
LexLeq(a, b) ==
    IF a.stem # b.stem THEN StemRank(a.stem) < StemRank(b.stem)
    ELSE SeqLexLeq(a.digits, b.digits)

\* natsort's order: digit runs compare as numbers
NatLeq(a, b) ==
    IF a.stem # b.stem THEN StemRank(a.stem) < StemRank(b.stem)
    ELSE DigitsToInt(a.digits) <= DigitsToInt(b.digits)

RECURSIVE sorted(_)
sorted(S) ==
    IF S = {} THEN <<>>
    ELSE LET m == CHOOSE x \in S : \A y \in S : LexLeq(x, y)
         IN  <<m>> \o sorted(S \ {m})

RECURSIVE natsorted(_)
natsorted(S) ==
    IF S = {} THEN <<>>
    ELSE LET m == CHOOSE x \in S : \A y \in S : NatLeq(x, y)
         IN  <<m>> \o natsorted(S \ {m})

\* ------------------------------------------------------- external tools
\* pdftoppm -jpeg -f first [-l last] fp <dir>/output on a PDF of n pages:
\* one output-<page>.jpg per page, the page number padded to the width of n.
Pdftoppm(cmd, n) ==
    LET last == IF cmd.has_l THEN Min(cmd.l, n) ELSE n
    IN  {[stem |-> "output-", digits |-> Zfill(Str(p), Len(Str(n)))] :
            p \in cmd.f..last}

\* The pages unoconvert writes for PageRange=1-m of a document of d pages;
\* the range 1-0 is not a range of the document, and what the filter does
\* with it is not fixed here.
UnoPageCounts(d, m) == IF m >= 1 THEN {Min(d, m)} ELSE 1..d

\* The images the EML renderer leaves in the working directory.
EmlNames == {[stem |-> "output_", digits |-> <<"2">>],
             [stem |-> "output_", digits |-> <<"9">>],
             [stem |-> "output_", digits |-> <<"1", "0">>]}

EmlRenderOutputs == SUBSET EmlNames

\* ------------------------------------------------------------ functions
\* convert_from_path: the pdftoppm command line
convert_from_path(first_page, last_page) ==
    [f |-> first_page,
     has_l |-> Truthy(last_page),
     l |-> IF Truthy(last_page) THEN CHOOSE v \in last_page : TRUE ELSE 0]

\* pdf_to_images(file, max_pages=None)
pdf_to_images(max_pages) == convert_from_path(1, max_pages)

\* pdfinfo_from_path builds the dictionary and falls off its end
pdfinfo_dict(pages) == [type |-> "dict", Pages |-> Str(pages)]

PyNone == [type |-> "NoneType", Pages |-> <<>>]

\* the function ends with the expression statement `pdfinfo`, not a return
pdfinfo_from_path(pages) == LET pdfinfo == pdfinfo_dict(pages) IN PyNone

\* a str == an int: never equal
PyStrEqInt(s, n) == FALSE

\* pdfinfo_from_path(fp)["Pages"] == 1 and "click" in ocr_content.lower(),
\* inside try/except Exception: subscripting None raises TypeError, which
\* the except clause swallows.
PhishingFires(pages, ocr_content) ==
    LET info == pdfinfo_from_path(pages)
    IN  IF info.type # "dict" THEN FALSE
        ELSE PyStrEqInt(info.Pages, 1) /\ ContainsClick(Lower(ocr_content))

\* ------------------------------------------------------------ file types
Office(product) == <<"document", "office", product>>

TypePdf == <<"document", "pdf">>

TypeHtml == <<"code", "html">>

FileTypes == {Office("word"), Office("excel"), Office("powerpoint"), Office("rtf"),
              Office("email"), Office("onenote"), <<"document", "email">>,
              TypePdf, TypeHtml, <<"image", "png">>}

AnyOfficeType(ft) == Len(ft) = 3 /\ ft[1] = "document" /\ ft[2] = "office"

IsOfficeType(ft) ==
    \E ms_product \in {"word", "excel", "powerpoint", "rtf"} : ft = Office(ms_product)

\* request.file_type.endswith(suffix)
EndsWith(ft, suffix) == ft[Len(ft)] = suffix

Orientation(ft) ==
    IF \E t \in {"excel", "powerpoint"} : EndsWith(ft, t) THEN "landscape" ELSE "portrait"

Path(ft) ==
    IF IsOfficeType(ft) THEN "office"
    ELSE IF ft = TypePdf THEN "pdf"
    ELSE IF EndsWith(ft, "email") THEN "email"
    ELSE IF ft = TypeHtml THEN "html"
    ELSE "none"

\* --------------------------------------------------------------- inputs
MaxPagesRaw == {Str(m) : m \in 0..MaxPagesParam} \cup {<<"a", "l", "l">>}

SaveOcrValues == {Lit("no"), Lit("as_extracted"), Caps("as_extracted"),
                  Lit("as_supplementary"), Lit("zip")}

OcrTexts == {Lit("click here"), Caps("click here"), Lit("invoice")}

Requests == [file_type : FileTypes,
             max_pages_rendered : MaxPagesRaw,
             save_ocr_output : SaveOcrValues,
             run_ocr_on_first_n_pages : 0..MaxOcrPages,
             deep_scan : BOOLEAN,
             pages : 1..MaxDocPages]

NoRequest == [file_type |-> <<"image", "png">>, max_pages_rendered |-> <<"0">>,
              save_ocr_output |-> Lit("no"), run_ocr_on_first_n_pages |-> 0,
              deep_scan |-> FALSE, pages |-> 1]

\* ---------------------------------------------------------------- state
VARIABLES pc, caller, started, request, max_pages, working_directory,
          marker, backend, calls, result, attached, log, raised, sleeps

vars == <<pc, caller, started, request, max_pages, working_directory,
          marker, backend, calls, result, attached, log, raised, sleeps>>

\* The external programs run so far in the current call: how often unoserver
\* was started, the arguments of each unoconvert and pdftoppm run, how each
\* google-chrome run ended, and the msgconvert and eml2image runs.
NoCalls == [unoserver |-> 0, unoconvert |-> <<>>, pdftoppm |-> <<>>,
            chrome |-> <<>>, msgconvert |-> 0, eml2image |-> 0]

\* Result(): no section, not yet assigned to request.result
EmptyResult == [assigned |-> FALSE, images |-> <<>>, image_section |-> FALSE,
                promoted |-> FALSE, phishing |-> 0]

NoAttached == [extracted |-> <<>>, supplementary |-> <<>>]

NoLog == [error |-> <<>>, warning |-> 0]

Fresh ==
    /\ request = NoRequest
    /\ max_pages = 0
    /\ working_directory = {}
    /\ calls = NoCalls
    /\ result = EmptyResult
    /\ attached = NoAttached
    /\ log = NoLog
    /\ raised = "none"
    /\ sleeps = 0

Init ==
    /\ pc = "idle"
    /\ caller = "none"
    /\ started = FALSE
    /\ marker = FALSE
    /\ backend = "down"
    /\ Fresh

\* ------------------------------------------------- backend (unoserver)
\* The unoserver process launched with -p /tmp/libre_pid writes the file
\* once LibreOffice is up.
BackendReady ==
    /\ backend = "starting"
    /\ backend' = "up"
    /\ marker' = TRUE
    /\ UNCHANGED <<pc, caller, started, request, max_pages, working_directory,
                   calls, result, attached, log, raised, sleeps>>

\* Between invocations the backend exits and removes its file.
BackendExits ==
    /\ pc = "idle"
    /\ backend = "up"
    /\ backend' = "down"
    /\ marker' = FALSE
    /\ UNCHANGED <<pc, caller, started, request, max_pages, working_directory,
                   calls, result, attached, log, raised, sleeps>>

\* Between invocations the backend is killed: nothing removes the file.
BackendCrashes ==
    /\ pc = "idle"
    /\ backend = "up"
    /\ backend' = "down"
    /\ UNCHANGED <<marker, pc, caller, started, request, max_pages,
                   working_directory, calls, result, attached, log, raised, sleeps>>

\* ------------------------------------------- _start_unoserver_if_necessary
PidFileAssumed(m) == TRUE

\* os.path.exists(libre_pid_path)
PidFileExists(m) == m

\* Lines 38-42: with the file present the call returns at once (pc becomes
\* `ret`); otherwise unoserver is started and the caller goes to the loop.
start_unoserver_if_necessary(who, ret) ==
    IF PidFileExists(marker)
    THEN /\ pc' = ret
         /\ caller' = IF ret = "idle" THEN "none" ELSE who
         /\ started' = (started \/ who = "start")
         /\ UNCHANGED <<backend, calls>>
    ELSE /\ pc' = "poll"
         /\ caller' = who
         /\ calls' = [calls EXCEPT !.unoserver = @ + 1]
         /\ backend' = IF backend = "down" THEN "starting" ELSE backend
         /\ UNCHANGED started

\* start()
Start ==
    /\ pc = "idle"
    /\ ~started
    /\ start_unoserver_if_necessary("start", "idle")
    /\ UNCHANGED <<request, max_pages, working_directory, marker, result,
                   attached, log, raised, sleeps>>

\* Lines 43-46: one test of the loop condition; sleep(1) when the file is
\* still missing, return to the caller when it is there.
Poll ==
    /\ pc = "poll"
    /\ IF PidFileExists(marker)
       THEN /\ pc' = IF caller = "start" THEN "idle" ELSE "unoconvert"
            /\ caller' = IF caller = "start" THEN "none" ELSE caller
            /\ started' = (started \/ caller = "start")
            /\ calls' = IF caller = "start" THEN NoCalls ELSE calls
            /\ sleeps' = IF caller = "start" THEN 0 ELSE sleeps
       ELSE /\ sleeps' = Min(sleeps + 1, MaxSleeps)
            /\ UNCHANGED <<pc, caller, started, calls>>
    /\ UNCHANGED <<request, max_pages, working_directory, marker, backend,
                   result, attached, log, raised>>

\* --------------------------------------------------------------- execute
\* Lines 144-149: the parameters are read before the try block.
Execute(req) ==
    /\ pc = "idle"
    /\ started
    /\ request' = req
    /\ LET parsed == PyInt(req.max_pages_rendered)
       IN  IF parsed.ok
           THEN /\ max_pages' = parsed.val
                /\ pc' = "render"
                /\ UNCHANGED raised
           ELSE /\ raised' = "ValueError"
                /\ pc' = "done"
                /\ UNCHANGED max_pages
    /\ UNCHANGED <<caller, started, working_directory, marker, backend, calls,
                   result, attached, log, sleeps>>

\* render_documents, office branch up to the call of office_conversion
RenderOffice ==
    /\ pc = "render"
    /\ Path(request.file_type) = "office"
    /\ start_unoserver_if_necessary("office", "unoconvert")
    /\ UNCHANGED <<request, max_pages, working_directory, marker, result,
                   attached, log, raised, sleeps>>

OfficeConversionSilent(listing) ==
    IF ConvertedPdf \in listing
    THEN [raised |-> FALSE, ok |-> TRUE, exc |-> "none"]
    ELSE [raised |-> FALSE, ok |-> FALSE, exc |-> "none"]

\* Lines 74-78 of office_conversion: (True, "converted.pdf"), or
\* Exception(proc.stderr)
office_conversion(listing) ==
    IF ConvertedPdf \in listing
    THEN [raised |-> FALSE, ok |-> TRUE, exc |-> "none"]
    ELSE [raised |-> TRUE, ok |-> FALSE, exc |-> "proc.stderr"]

\* Lines 57-77 and 92-94, and the except clause of execute (152-156).  The
\* converter talks to the backend: with none running it writes no file.
Unoconvert ==
    /\ pc = "unoconvert"
    /\ \E produced \in (IF backend = "up" THEN BOOLEAN ELSE {FALSE}) :
       \E n \in UnoPageCounts(request.pages, max_pages) :
          LET listing == IF produced THEN {ConvertedPdf} ELSE {}
              converted == office_conversion(listing)
              cmd == pdf_to_images(None)
              args == [page_range_end |-> max_pages,
                       orientation |-> Orientation(request.file_type)]
          IN  /\ IF converted.raised
                 THEN /\ log' = [log EXCEPT !.error = Append(@, converted.exc)]
                      /\ result' = [result EXCEPT !.assigned = TRUE]
                      /\ working_directory' = listing
                      /\ calls' = [calls EXCEPT !.unoconvert = Append(@, args)]
                      /\ pc' = "done"
                 ELSE /\ working_directory' =
                            listing \cup (IF converted.ok THEN Pdftoppm(cmd, n) ELSE {})
                      /\ calls' = [calls EXCEPT
                            !.unoconvert = Append(@, args),
                            !.pdftoppm = IF converted.ok THEN Append(@, cmd) ELSE @]
                      /\ pc' = "gallery"
                      /\ UNCHANGED <<log, result>>
    /\ UNCHANGED <<caller, started, request, max_pages, marker, backend,
                   attached, raised, sleeps>>

\* render_documents, PDF branch
RenderPdf ==
    /\ pc = "render"
    /\ Path(request.file_type) = "pdf"
    /\ LET cmd == pdf_to_images({max_pages})
       IN  /\ working_directory' = Pdftoppm(cmd, request.pages)
           /\ calls' = [calls EXCEPT !.pdftoppm = Append(@, cmd)]
    /\ pc' = "gallery"
    /\ UNCHANGED <<caller, started, request, max_pages, marker, backend,
                   result, attached, log, raised, sleeps>>

\* render_documents, EML/MSG branch
RenderEmail ==
    /\ pc = "render"
    /\ Path(request.file_type) = "email"
    /\ \E outputs \in EmlRenderOutputs :
          working_directory' = outputs
    /\ calls' = [calls EXCEPT
          !.msgconvert = IF request.file_type = Office("email") THEN @ + 1 ELSE @,
          !.eml2image = @ + 1]
    /\ pc' = "gallery"
    /\ UNCHANGED <<caller, started, request, max_pages, marker, backend,
                   result, attached, log, raised, sleeps>>

HtmlRasterizeAlways(timed_out, pages_limit) == <<pdf_to_images({pages_limit})>>

\* Lines 125-141: the pdftoppm commands of the HTML branch; TimeoutExpired
\* leaves the try block before pdf_to_images.
html_rasterize(timed_out, pages_limit) ==
    IF timed_out THEN <<>> ELSE <<pdf_to_images({pages_limit})>>

\* render_documents, HTML branch
RenderHtml ==
    /\ pc = "render"
    /\ Path(request.file_type) = "html"
    /\ \E timed_out \in BOOLEAN :
          LET cmds == html_rasterize(timed_out, max_pages)
          IN  /\ working_directory' =
                    UNION {Pdftoppm(cmds[i], request.pages) : i \in 1..Len(cmds)}
              /\ calls' = [calls EXCEPT
                    !.chrome = Append(@, IF timed_out THEN "TimeoutExpired" ELSE "done"),
                    !.pdftoppm = @ \o cmds]
    /\ pc' = "gallery"
    /\ UNCHANGED <<caller, started, request, max_pages, marker, backend,
                   result, attached, log, raised, sleeps>>

\* render_documents with a type no branch matches
RenderNone ==
    /\ pc = "render"
    /\ Path(request.file_type) = "none"
    /\ pc' = "gallery"
    /\ UNCHANGED <<caller, started, request, max_pages, working_directory, marker,
                   backend, calls, result, attached, log, raised, sleeps>>

\* f"page_{str(i).zfill(3)}.jpeg": the digits of the display name
img_name(i) == Zfill(Str(i), 3)

\* ocr_heur_id: 1, or 0 for None
ocr_heur_id(req, i) ==
    IF req.deep_scan \/ i < req.run_ocr_on_first_n_pages THEN 1 ELSE 0

\* Lines 192-210 for one page: what is attached and what is logged
save_ocr(save_ocr_output, name) ==
    IF save_ocr_output = Lit("no")
    THEN [extracted |-> <<>>, supplementary |-> <<>>, warning |-> 0]
    ELSE IF save_ocr_output = Lit("as_extracted")
    THEN [extracted |-> <<name>>, supplementary |-> <<>>, warning |-> 0]
    ELSE IF save_ocr_output = Lit("as_supplementary")
    THEN [extracted |-> <<>>, supplementary |-> <<name>>, warning |-> 0]
    ELSE [extracted |-> <<>>, supplementary |-> <<>>, warning |-> 1]

RECURSIVE Flatten(_)
Flatten(ss) == IF ss = <<>> THEN <<>> ELSE ss[1] \o Flatten(Tail(ss))

RECURSIVE Sum(_)
Sum(ns) == IF ns = <<>> THEN 0 ELSE ns[1] + Sum(Tail(ns))

\* Lines 157-215: the gallery, the heuristic, the OCR output, the result
Gallery ==
    /\ pc = "gallery"
    /\ LET previews == {s \in working_directory : HasOutput(s)}
           ordered == natsorted(previews)
           save_ocr_output == Lower(request.save_ocr_output)
           is_pdf == request.file_type = TypePdf
       IN  IF previews = {}
           THEN /\ result' = [result EXCEPT !.assigned = TRUE]
                /\ UNCHANGED <<attached, log>>
           ELSE \E ocr_content \in (IF is_pdf THEN OcrTexts ELSE {Lit("")}) :
                LET saved == [k \in 1..Len(ordered) |->
                                 save_ocr(save_ocr_output, img_name(k - 1))]
                IN  /\ result' =
                          [assigned |-> TRUE,
                           images |-> [k \in 1..Len(ordered) |->
                               [path |-> ordered[k],
                                name |-> img_name(k - 1),
                                ocr_heuristic_id |-> ocr_heur_id(request, k - 1),
                                ocr_content |-> ocr_content]],
                           image_section |-> TRUE,
                           promoted |-> TRUE,
                           phishing |-> Sum([k \in 1..Len(ordered) |->
                               IF is_pdf /\ PhishingFires(request.pages, ocr_content)
                               THEN 1 ELSE 0])]
                    /\ attached' =
                          [extracted |-> Flatten([k \in 1..Len(ordered) |-> saved[k].extracted]),
                           supplementary |->
                               Flatten([k \in 1..Len(ordered) |-> saved[k].supplementary])]
                    /\ log' = [log EXCEPT !.warning =
                          @ + Sum([k \in 1..Len(ordered) |-> saved[k].warning])]
    /\ pc' = "done"
    /\ UNCHANGED <<caller, started, request, max_pages, working_directory, marker,
                   backend, calls, raised, sleeps>>

\* execute has returned (or raised): the worker is ready for the next request,
\* which gets a working directory of its own.
Return ==
    /\ pc = "done"
    /\ pc' = "idle"
    /\ caller' = "none"
    /\ request' = NoRequest
    /\ max_pages' = 0
    /\ working_directory' = {}
    /\ calls' = NoCalls
    /\ result' = EmptyResult
    /\ attached' = NoAttached
    /\ log' = NoLog
    /\ raised' = "none"
    /\ sleeps' = 0
    /\ UNCHANGED <<started, marker, backend>>

Next ==
    \/ Start
    \/ Poll
    \/ \E req \in Requests : Execute(req)
    \/ RenderOffice
    \/ Unoconvert
    \/ RenderPdf
    \/ RenderEmail
    \/ RenderHtml
    \/ RenderNone
    \/ Gallery
    \/ Return
    \/ BackendReady
    \/ BackendExits
    \/ BackendCrashes

Spec == Init /\ [][Next]_vars

\* The worker is one synchronous thread: a step of it that can be taken is
\* taken.  Nothing is assumed of the backend.
LiveSpec == Spec /\ WF_vars(Poll) /\ WF_vars(Unoconvert)

\* ---------------------------------------------------------------- claims
Previews == {s \in working_directory : HasOutput(s)}

\* execute ran render_documents and has not raised
Rendered == pc \in {"gallery", "done"} /\ raised = "none"

\* C1: every invocation of execute ends with request.result assigned and
\* with no exception propagating to the caller, whatever the file type, the
\* parameter values and the outcome of the conversion.
C1_ResultAlwaysAssigned ==
    pc = "done" => (result.assigned /\ raised = "none")

\* C2: when unoconvert has returned and converted.pdf is not in the working
\* directory, office_conversion raises the tool's stderr, pdftoppm is never
\* run, the error is logged, and the result assigned has no image section,
\* no heuristic finding and no OCR artifact.
OfficeConversionFailed ==
    Len(calls.unoconvert) = 1 /\ ConvertedPdf \notin working_directory

C2_OfficeFailureGivesEmptyResult ==
    OfficeConversionFailed =>
        /\ pc = "done"
        /\ log.error = <<"proc.stderr">>
        /\ calls.pdftoppm = <<>>
        /\ raised = "none"
        /\ result.assigned
        /\ ~result.image_section
        /\ result.images = <<>>
        /\ result.phishing = 0
        /\ attached = NoAttached

C2_Witness ==
    /\ OfficeConversionFailed
    /\ backend = "up"
    /\ pc = "done"
    /\ log.error = <<"proc.stderr">>

\* C3: a call of office_conversion or start that begins with the marker
\* file absent starts unoserver exactly once and goes to the loop; the loop
\* is left only in a state where the marker exists (it never gives up);
\* unoconvert is run only in a state where the marker exists; and once the
\* marker is there while office_conversion waits, unoconvert is eventually
\* run.
C3_WaitsForMarker ==
    /\ [][((Start \/ RenderOffice) /\ ~marker) =>
            (pc' = "poll" /\ calls'.unoserver = 1)]_vars
    /\ [][(pc = "poll" /\ pc' = "poll") => calls'.unoserver = 1]_vars
    /\ [][(pc = "poll" /\ pc' # "poll") => marker]_vars
    /\ [][Len(calls'.unoconvert) > Len(calls.unoconvert) => marker]_vars
    /\ ((pc = "poll" /\ caller = "office" /\ marker) ~> (Len(calls.unoconvert) = 1))

C3_Witness ==
    /\ caller = "office"
    /\ calls.unoserver = 1
    /\ sleeps > 0
    /\ Len(calls.unoconvert) = 1
    /\ marker

\* C4: whenever office_conversion runs the converter the backend process is
\* running; the check-and-launch never starts a second backend while one is
\* running, and it restarts a backend that died between invocations.
C4_BackendRunningAtConvert ==
    /\ [][Len(calls'.unoconvert) > Len(calls.unoconvert) => backend = "up"]_vars
    /\ [][calls'.unoserver > calls.unoserver => backend = "down"]_vars
    /\ [][((Start \/ RenderOffice) /\ backend = "down") => backend' = "starting"]_vars

\* C5: the gallery holds every file of the working directory whose name
\* contains "output" exactly once, in natural order of the names, and the
\* k-th image (k = 0..n-1) is displayed as page_<k on 3 digits>.jpeg.
C5_GalleryComplete ==
    /\ (pc = "done" /\ Previews # {}) => result.image_section
    /\ result.image_section =>
        LET imgs == result.images
        IN  /\ Len(imgs) = Cardinality(Previews)
            /\ \A f \in Previews :
                   Cardinality({k \in 1..Len(imgs) : imgs[k].path = f}) = 1
            /\ \A k \in 1..Len(imgs) : \A j \in 1..Len(imgs) :
                   k < j => DigitsToInt(imgs[k].path.digits)
                               < DigitsToInt(imgs[j].path.digits)
            /\ \A k \in 1..Len(imgs) :
                   /\ Len(imgs[k].name) = 3
                   /\ DigitsToInt(imgs[k].name) = k - 1

C5_Witness ==
    /\ result.image_section
    /\ Len(result.images) = 3
    /\ result.images[2].path.digits = <<"9">>
    /\ result.images[3].path.digits = <<"1", "0">>
    /\ result.images[3].name = <<"0", "0", "2">>

\* C6: for a document/pdf input, a PDF of exactly one page whose OCR text
\* contains "click" in any letter case gets exactly one "Suspected
\* Phishing" finding; a PDF of more than one page gets none.
C6_PhishingOnSinglePage ==
    (pc = "done" /\ request.file_type = TypePdf /\ result.image_section) =>
        result.phishing =
            (IF request.pages = 1
                /\ result.images[1].ocr_content.chars \in {"click here", "please click"}
             THEN 1 ELSE 0)

\* C7: per page image, the OCR text file is attached once with
\* add_extracted for "as_extracted", once with add_supplementary for
\* "as_supplementary" (both compared after lower-casing), and not at all
\* for "no" or any other value, which is logged as a warning; whether OCR
\* was triggered for the page plays no part.
C7_OcrOutputPolicy ==
    (pc = "done" /\ result.image_section) =>
        LET policy == request.save_ocr_output.chars
            names == [k \in 1..Len(result.images) |-> result.images[k].name]
        IN  /\ attached.extracted = (IF policy = "as_extracted" THEN names ELSE <<>>)
            /\ attached.supplementary =
                   (IF policy = "as_supplementary" THEN names ELSE <<>>)
            /\ log.warning =
                   (IF policy \in {"no", "as_extracted", "as_supplementary"}
                    THEN 0 ELSE Len(names))

C7_Witness ==
    /\ pc = "done"
    /\ request.save_ocr_output = Caps("as_extracted")
    /\ Len(result.images) = 2
    /\ result.images[1].ocr_heuristic_id = 1
    /\ result.images[2].ocr_heuristic_id = 0
    /\ Len(attached.extracted) = 2

\* C8: when the headless browser exceeds html_render_timeout,
\* render_documents catches the timeout, does not run pdftoppm, leaves no
\* page image and raises nothing, and execute assigns a result without an
\* image section.
C8_HtmlTimeoutIsSoft ==
    "TimeoutExpired" \in {calls.chrome[i] : i \in 1..Len(calls.chrome)} =>
        /\ calls.pdftoppm = <<>>
        /\ Previews = {}
        /\ raised = "none"
        /\ log.error = <<>>
        /\ pc \in {"gallery", "done"}
        /\ pc = "done" => (result.assigned /\ ~result.image_section)

C8_Witness ==
    /\ pc = "done"
    /\ calls.chrome = <<"TimeoutExpired">>
    /\ result.assigned
    /\ request.pages > 1

\* C9: render_documents runs at most one of the four conversion paths, and
\* for a type that is none of document/office/{word,excel,powerpoint,rtf},
\* document/pdf, a type ending in "email" or code/html it runs no converter
\* and no external process, leaves no image and raises nothing, and execute
\* assigns a result without an image section.
Recognized(ft) ==
    \/ ft \in {<<"document", "office", "word">>, <<"document", "office", "excel">>,
               <<"document", "office", "powerpoint">>, <<"document", "office", "rtf">>}
    \/ ft = <<"document", "pdf">>
    \/ ft[Len(ft)] = "email"
    \/ ft = <<"code", "html">>

\* the tools that belong to one path only, by the path they belong to
ToolGroupsRun ==
    {p \in {"office", "email", "html"} :
        \/ p = "office" /\ (calls.unoserver > 0 \/ calls.unoconvert # <<>>)
        \/ p = "email" /\ (calls.msgconvert > 0 \/ calls.eml2image > 0)
        \/ p = "html" /\ calls.chrome # <<>>}

C9_DispatchIsTotal ==
    /\ Cardinality(ToolGroupsRun) <= 1
    /\ caller # "start" =>
          /\ "office" \in ToolGroupsRun =>
                request.file_type \in {<<"document", "office", "word">>,
                                       <<"document", "office", "excel">>,
                                       <<"document", "office", "powerpoint">>,
                                       <<"document", "office", "rtf">>}
          /\ "email" \in ToolGroupsRun =>
                request.file_type[Len(request.file_type)] = "email"
          /\ "html" \in ToolGroupsRun => request.file_type = <<"code", "html">>
          /\ request.file_type = <<"document", "pdf">> => ToolGroupsRun = {}
    /\ (Rendered /\ ~Recognized(request.file_type)) =>
          /\ calls = NoCalls
          /\ working_directory = {}
          /\ log.error = <<>>
          /\ pc = "done" => (result.assigned /\ ~result.image_section)

C9_Witness ==
    /\ pc = "done"
    /\ raised = "none"
    /\ request.file_type = <<"document", "office", "onenote">>
    /\ result.assigned

\* C10: for every value M of max_pages_rendered, 0 included, on the PDF,
\* HTML and office paths pdftoppm is asked for pages 1..M only (or, on the
\* office path, is given a PDF already cut to pages 1..M), so a document of
\* more than M pages gives no more than M page images.
C10_PageLimitHonoured ==
    (Rendered /\ calls.pdftoppm # <<>>) =>
        /\ (calls.unoconvert = <<>>) =>
               \A i \in 1..Len(calls.pdftoppm) :
                   calls.pdftoppm[i].has_l /\ calls.pdftoppm[i].l = max_pages
        /\ request.pages > max_pages => Cardinality(Previews) <= max_pages

====
